---- MODULE Spec2Model ----
(***************************************************************************)
(* Automatic inventory replenishment: one run of main() over a CSV file.   *)
(*                                                                         *)
(* A CSV field is a sequence of one-character strings (the text of the    *)
(* field); None, the value csv.DictReader gives a field the line does not  *)
(* have, is a value that is no text.  Numbers are integers: the quantities *)
(* the run computes with are sums, differences and products of the parsed  *)
(* fields and of the forecast.                                             *)
(*                                                                         *)
(* The environment decides two things: what forecast_sales (Prophet)       *)
(* returns or whether it raises, and, in place_purchase_order, whether the *)
(* body of the try block (the POST to the ordering API, "Dummy for test"   *)
(* in the source) completes or raises.                                     *)
(***************************************************************************)
EXTENDS Integers, Sequences, FiniteSets, TLC

(* ---------------------------- bounds ---------------------------------- *)
MaxRows == 3
MaxRawRows == 2
MaxForecast == 2

(* ---------------------------- texts ----------------------------------- *)
None == <<"<None>">>

Digits == {"0", "1", "2", "3", "4", "5", "6", "7", "8", "9"}

DigitVal(c) ==
  CASE c = "0" -> 0 [] c = "1" -> 1 [] c = "2" -> 2 [] c = "3" -> 3
    [] c = "4" -> 4 [] c = "5" -> 5 [] c = "6" -> 6 [] c = "7" -> 7
    [] c = "8" -> 8 [] c = "9" -> 9

RECURSIVE DigitsVal(_)
DigitsVal(s) ==
  IF s = <<>> THEN 0
  ELSE 10 * DigitsVal(SubSeq(s, 1, Len(s) - 1)) + DigitVal(s[Len(s)])

AllDigits(s) == Len(s) > 0 /\ \A j \in 1..Len(s) : s[j] \in Digits

Unsigned(s) == IF Len(s) > 0 /\ s[1] \in {"-", "+"} THEN Tail(s) ELSE s

\* float(text): the text parses iff it is an optional sign and one or more
\* digits (the texts of this model hold digits, signs and letters only).
FloatOk(s) == s # None /\ AllDigits(Unsigned(s))

FloatVal(s) ==
  IF Len(s) > 0 /\ s[1] = "-" THEN 0 - DigitsVal(Unsigned(s))
  ELSE DigitsVal(Unsigned(s))

\* the value pandas gives where there is none (float('nan'))
NaN == 99

\* pd.to_numeric(col, errors='coerce')
to_numeric(s) == IF FloatOk(s) THEN FloatVal(s) ELSE NaN

\* pd.to_datetime(text): dates are written as their day number
DateOk(s) == s # None /\ AllDigits(s)
to_datetime(s) == DigitsVal(s)

(* ---------------------------- rows ------------------------------------ *)
required_keys ==
  <<"Company", "Warehouse", "Date", "SKU", "Sales", "SOH", "Open_PO", "Open_SO",
    "Promotion", "Festival", "Min_Days", "Max_Days">>

numeric_keys == <<"Sales", "SOH", "Open_PO", "Open_SO", "Min_Days", "Max_Days">>

Range(s) == {s[j] : j \in 1..Len(s)}

YES == <<"Y", "E", "S">>
NO == <<"N", "O">>

MkRow(sku, date, soh, po, so, promo, fest, mind, maxd) ==
  [Company |-> <<"C">>, Warehouse |-> <<"W">>, Date |-> date, SKU |-> sku,
   Sales |-> <<"4">>, SOH |-> soh, Open_PO |-> po, Open_SO |-> so,
   Promotion |-> promo, Festival |-> fest, Min_Days |-> mind, Max_Days |-> maxd]

\* rows of the batch runs: two SKUs with history on two days, a row whose
\* Max_Days is below its Min_Days, flags in several spellings, and two
\* malformed rows (one of a SKU that has no other row)
RowA1 == MkRow(<<"A">>, <<"1">>, <<"5">>, <<"2">>, <<"1">>, YES, NO, <<"1">>, <<"3">>)
RowA2 == MkRow(<<"A">>, <<"2">>, <<"0">>, <<"0">>, <<"2">>, NO, NO, <<"1">>, <<"3">>)
RowA3 == MkRow(<<"A">>, <<"2">>, <<"1">>, <<"0">>, <<"0">>, <<"y", "e", "s">>, NO, <<"3">>, <<"1">>)
RowB1 == MkRow(<<"B">>, <<"1">>, <<"1">>, <<"1">>, <<"0">>, NO, YES, <<"1">>, <<"3">>)
RowB2 == MkRow(<<"B">>, <<"2">>, <<"0">>, <<"1">>, <<"0">>, NO, <<"T", "R", "U", "E">>, <<"1">>, <<"2">>)
RowBbad == [RowB2 EXCEPT !.SOH = <<>>]
RowCbad == [MkRow(<<"C">>, <<"1">>, <<"1">>, <<"0">>, <<"0">>, NO, NO, <<"1">>, <<"3">>)
              EXCEPT !.Sales = <<"x">>]

BatchRowSet == {RowA1, RowA2, RowA3, RowB1, RowB2, RowBbad, RowCbad}

\* rows of the validation runs: one well-formed row and every way of
\* spoiling one field of it
WithoutKey(row, key) == [x \in (DOMAIN row) \ {key} |-> row[x]]

RawRowSet ==
  {RowA1}
    \cup {[RowA1 EXCEPT ![key] = v] : key \in Range(required_keys), v \in {<<>>, None}}
    \cup {[RowA1 EXCEPT ![key] = <<"x">>] : key \in Range(numeric_keys)}
    \cup {[RowA1 EXCEPT !.SOH = v] : v \in {<<"-">>, <<"-", "1">>}}
    \cup {WithoutKey(RowA1, key) : key \in {"SOH", "Festival"}}
    \cup {[RowA1 EXCEPT !.Date = <<"x">>], [RowA1 EXCEPT !.Promotion = <<"Y">>]}

SeqsUpTo(S, n) == UNION {[1..m -> S] : m \in 0..n}

Inputs == SeqsUpTo(BatchRowSet, MaxRows) \cup SeqsUpTo(RawRowSet, MaxRawRows)

(* ---------------------------- pure functions -------------------------- *)
\* the body of the try block of load_and_validate_csv: TRUE iff no
\* statement of it raises (KeyError, ValueError), so the row is appended
\* to valid_rows
RECURSIVE RequiredPresent(_, _)
RequiredPresent(row, j) ==
  IF j > Len(required_keys) THEN TRUE
  ELSE LET key == required_keys[j] IN
       IF key \notin DOMAIN row THEN FALSE
       ELSE IF row[key] = <<>> \/ row[key] = None THEN FALSE
       ELSE RequiredPresent(row, j + 1)

\* float(row['Max_Days']) left out
NumericFieldsParse_NoMaxDays(row) ==
  /\ FloatOk(row["Sales"])
  /\ FloatOk(row["SOH"])
  /\ FloatOk(row["Open_PO"])
  /\ FloatOk(row["Open_SO"])
  /\ FloatOk(row["Min_Days"])

NumericFieldsParse(row) ==
  /\ FloatOk(row["Sales"])
  /\ FloatOk(row["SOH"])
  /\ FloatOk(row["Open_PO"])
  /\ FloatOk(row["Open_SO"])
  /\ FloatOk(row["Min_Days"])
  /\ FloatOk(row["Max_Days"])

RowIsValid(row) == RequiredPresent(row, 1) /\ NumericFieldsParse(row)

\* df[col] = pd.to_numeric(df[col], errors='coerce') for the six columns
NumericRow(row) ==
  [key \in DOMAIN row |->
     IF key \in Range(numeric_keys) THEN to_numeric(row[key]) ELSE row[key]]

NumericFrame(frame) == [j \in 1..Len(frame) |-> NumericRow(frame[j])]

\* df['SKU'].unique(): the distinct values in order of first appearance
RECURSIVE unique(_)
unique(s) ==
  IF s = <<>> THEN <<>>
  ELSE LET front == unique(SubSeq(s, 1, Len(s) - 1))
           x == s[Len(s)]
       IN IF x \in Range(front) THEN front ELSE Append(front, x)

Column(frame, key) == [j \in 1..Len(frame) |-> frame[j][key]]

\* df[df['SKU'] == sku]
RowsOfSku(frame, sku) == SelectSeq(frame, LAMBDA r : r["SKU"] = sku)

\* Series.map({'YES': 1, 'NO': 0}): a value that is no key of the
\* dictionary maps to NaN
FlagMap(v) == IF v = YES THEN 1 ELSE IF v = NO THEN 0 ELSE NaN

preprocess_data(frame) ==
  [j \in 1..Len(frame) |->
     [ds |-> to_datetime(frame[j]["Date"]),
      y |-> frame[j]["Sales"],
      promotion |-> FlagMap(frame[j]["Promotion"]),
      festival |-> FlagMap(frame[j]["Festival"])]]

\* pd.to_datetime raises on a text that is no date
PreprocessRaises(frame) == \E j \in 1..Len(frame) : ~DateOk(frame[j]["Date"])

compute_adjusted_soh(soh, open_po, open_so) == soh + open_po - open_so

compute_min_max_inventory(forecast_qty, min_days, max_days) ==
  [min_inv |-> forecast_qty * min_days, max_inv |-> forecast_qty * max_days]

Max0(x) == IF x > 0 THEN x ELSE 0

\* the max(0, ...) left out
ProcurementQty_NoClamp(adjusted_soh, min_inv, max_inv) ==
  IF adjusted_soh < min_inv THEN max_inv - adjusted_soh ELSE 0

\* main, lines 74-79
ProcurementQty(adjusted_soh, min_inv, max_inv) ==
  IF adjusted_soh < min_inv THEN Max0(max_inv - adjusted_soh) ELSE 0

call_api == TRUE

\* >= 0 for > 0
ShouldOrder_NonNegative(procurement_qty) == call_api /\ procurement_qty >= 0

\* main, line 94
ShouldOrder(procurement_qty) == call_api /\ procurement_qty > 0

retries == 3

\* range(1, retries) for range(1, retries+1)
HasNextAttempt_OffByOne(n) == n + 1 < retries

\* range(1, retries+1): whether the loop has an attempt after this one
HasNextAttempt(n) == n + 1 < retries + 1

BackoffBase == 5

\* time.sleep(5 * attempt)
Backoff(n) == BackoffBase * n

ForecastVals == (0 - 1)..MaxForecast

(* ---------------------------- state ----------------------------------- *)
VARIABLES
  rows,            \* the data lines of the CSV file, as csv.DictReader yields them
  i,               \* load_and_validate_csv: number of rows read
  valid_rows,      \* load_and_validate_csv: valid_rows
  malformed_rows,  \* load_and_validate_csv: malformed_rows
  pc,              \* where the run is
  exc,             \* the call whose exception ended the run ("" if none)
  df,              \* main: df, once its numeric columns are converted
  sku_list,        \* main: sku_list
  k,               \* main: position of the loop in sku_list
  processed_df,    \* main: processed_df of the SKU last preprocessed
  decisions,       \* main: the per-SKU log line of line 92, one record per SKU
  summary_rows,    \* main: summary_rows
  tokens,          \* number of get_access_token calls
  orders,          \* the payloads place_purchase_order was called with
  attempt,         \* place_purchase_order: attempt (0 outside the call)
  po_log,          \* place_purchase_order: what the current/last call did
  po_results       \* the values place_purchase_order returned

vars == <<rows, i, valid_rows, malformed_rows, pc, exc, df, sku_list, k,
          processed_df, decisions, summary_rows, tokens, orders, attempt,
          po_log, po_results>>

load_vars == <<i, valid_rows, malformed_rows>>
batch_vars == <<df, sku_list, k, processed_df, decisions, summary_rows>>
order_vars == <<tokens, orders, attempt, po_log, po_results>>

Init ==
  /\ rows \in Inputs
  /\ i = 0
  /\ valid_rows = <<>>
  /\ malformed_rows = <<>>
  /\ pc = "load"
  /\ exc = ""
  /\ df = <<>>
  /\ sku_list = <<>>
  /\ k = 0
  /\ processed_df = <<>>
  /\ decisions = <<>>
  /\ summary_rows = <<>>
  /\ tokens = 0
  /\ orders = <<>>
  /\ attempt = 0
  /\ po_log = <<>>
  /\ po_results = <<>>

(* ---------------------------- load_and_validate_csv ------------------- *)
\* one iteration of the reader loop
ReadRow ==
  /\ pc = "load"
  /\ i < Len(rows)
  /\ LET row == rows[i + 1] IN
       IF RowIsValid(row)
       THEN /\ valid_rows' = Append(valid_rows, row)
            /\ UNCHANGED malformed_rows
       ELSE /\ malformed_rows' = Append(malformed_rows, row)
            /\ UNCHANGED valid_rows
  /\ i' = i + 1
  /\ UNCHANGED <<rows, pc, exc, batch_vars, order_vars>>

\* the check of df.empty left out
DfEmpty_Never(frame) == FALSE

DfEmpty(frame) == Len(frame) = 0

\* the loader returns an empty frame: main logs the error and returns
NoValidData ==
  /\ pc = "load"
  /\ i = Len(rows)
  /\ DfEmpty(valid_rows)
  /\ pc' = "no_data"
  /\ UNCHANGED <<rows, exc, load_vars, batch_vars, order_vars>>

\* the loader returns rows: main converts the numeric columns and lists the SKUs
StartBatch ==
  /\ pc = "load"
  /\ i = Len(rows)
  /\ ~DfEmpty(valid_rows)
  /\ df' = NumericFrame(valid_rows)
  /\ sku_list' = unique(Column(df', "SKU"))
  /\ k' = 1
  /\ pc' = "sku_loop"
  /\ UNCHANGED <<rows, exc, load_vars, processed_df, decisions, summary_rows, order_vars>>

(* ---------------------------- main: the per-SKU loop ------------------ *)
InLoop == pc = "sku_loop" /\ k <= Len(sku_list)

sku_df == RowsOfSku(df, sku_list[k])

\* sku_df.iloc[-1]
LastRow(frame) == frame[Len(frame)]

\* preprocess_data raises (pd.to_datetime): nothing in main catches it
PreprocessFails ==
  /\ InLoop
  /\ PreprocessRaises(sku_df)
  /\ pc' = "raised"
  /\ exc' = "preprocess_data"
  /\ UNCHANGED <<rows, load_vars, batch_vars, order_vars>>

\* forecast_sales raises: nothing in main catches it
ForecastFails ==
  /\ InLoop
  /\ ~PreprocessRaises(sku_df)
  /\ processed_df' = preprocess_data(sku_df)
  /\ pc' = "raised"
  /\ exc' = "forecast_sales"
  /\ UNCHANGED <<rows, load_vars, df, sku_list, k, decisions, summary_rows, order_vars>>

Decision(sku, forecast_qty, last) ==
  LET soh == last["SOH"]
      open_po == last["Open_PO"]
      open_so == last["Open_SO"]
      min_days == last["Min_Days"]
      max_days == last["Max_Days"]
      inv == compute_min_max_inventory(forecast_qty, min_days, max_days)
      adjusted_soh == compute_adjusted_soh(soh, open_po, open_so)
  IN [sku |-> sku, forecast |-> forecast_qty, soh |-> soh, open_po |-> open_po,
      open_so |-> open_so, min_days |-> min_days, max_days |-> max_days,
      min_inv |-> inv.min_inv, max_inv |-> inv.max_inv,
      adjusted_soh |-> adjusted_soh,
      procurement_qty |-> ProcurementQty(adjusted_soh, inv.min_inv, inv.max_inv)]

SummaryRow(d) ==
  [SKU |-> d.sku, Forecast |-> d.forecast, SOH |-> d.soh,
   AdjustedSOH |-> d.adjusted_soh, OpenPO |-> d.open_po, OpenSO |-> d.open_so,
   ProcurementQty |-> d.procurement_qty]

\* one iteration of the loop, lines 55-104, up to the first attempt of an order
ProcessSku ==
  /\ InLoop
  /\ ~PreprocessRaises(sku_df)
  /\ processed_df' = preprocess_data(sku_df)
  /\ \E forecast_qty \in ForecastVals :
       LET last == LastRow(sku_df)
           d == Decision(sku_list[k], forecast_qty, last)
       IN /\ decisions' = Append(decisions, d)
          /\ summary_rows' = Append(summary_rows, SummaryRow(d))
          /\ IF ShouldOrder(d.procurement_qty)
             THEN /\ tokens' = tokens + 1
                  /\ orders' = Append(orders,
                                      [sku |-> d.sku, quantity |-> d.procurement_qty,
                                       company |-> last["Company"],
                                       warehouse |-> last["Warehouse"]])
                  /\ attempt' = 1
                  /\ po_log' = <<>>
                  /\ pc' = "po_attempt"
                  /\ UNCHANGED k
             ELSE /\ k' = k + 1
                  /\ UNCHANGED <<tokens, orders, attempt, po_log, pc>>
  /\ UNCHANGED <<rows, exc, load_vars, df, sku_list, po_results>>

\* the loop is over: the summary table is printed
Finish ==
  /\ pc = "sku_loop"
  /\ k > Len(sku_list)
  /\ pc' = "done"
  /\ UNCHANGED <<rows, exc, load_vars, batch_vars, order_vars>>

(* ---------------------------- place_purchase_order -------------------- *)
Event(ev, n) == [ev |-> ev, n |-> n]

\* the try block completes: return True
AttemptSucceeds ==
  /\ pc = "po_attempt"
  /\ po_log' = po_log \o <<Event("attempt", attempt), Event("success", attempt)>>
  /\ po_results' = Append(po_results, TRUE)
  /\ attempt' = 0
  /\ k' = k + 1
  /\ pc' = "sku_loop"
  /\ UNCHANGED <<rows, exc, load_vars, df, sku_list, processed_df, decisions,
                 summary_rows, tokens, orders>>

\* the try block raises: the handler logs and sleeps; after the last
\* iteration the loop ends, and the function logs and returns False
AttemptFails ==
  /\ pc = "po_attempt"
  /\ LET failed == po_log \o <<Event("attempt", attempt), Event("failed", attempt),
                               Event("sleep", Backoff(attempt))>>
     IN IF HasNextAttempt(attempt)
        THEN /\ po_log' = failed
             /\ attempt' = attempt + 1
             /\ UNCHANGED <<po_results, k, pc>>
        ELSE /\ po_log' = Append(failed, Event("exhausted", attempt))
             /\ po_results' = Append(po_results, FALSE)
             /\ attempt' = 0
             /\ k' = k + 1
             /\ pc' = "sku_loop"
  /\ UNCHANGED <<rows, exc, load_vars, df, sku_list, processed_df, decisions,
                 summary_rows, tokens, orders>>

(* ---------------------------- specification --------------------------- *)
Next ==
  \/ ReadRow
  \/ NoValidData
  \/ StartBatch
  \/ PreprocessFails
  \/ ForecastFails
  \/ ProcessSku
  \/ Finish
  \/ AttemptSucceeds
  \/ AttemptFails

Spec == Init /\ [][Next]_vars

\* the run is one sequential program: it takes its next step
FairSpec == Spec /\ WF_vars(Next)

(* ---------------------------- properties ------------------------------ *)
Count(log, ev) == Cardinality({j \in 1..Len(log) : log[j].ev = ev})

Read == SubSeq(rows, 1, i)

TypeOK ==
  /\ pc \in {"load", "no_data", "sku_loop", "po_attempt", "raised", "done"}
  /\ i \in 0..Len(rows)
  /\ attempt \in 0..retries
  /\ \A j \in 1..Len(df) : \A key \in Range(numeric_keys) : df[j][key] # NaN

\* C1 as stated: the procurement quantity of every decision is never
\* negative, is 0 exactly when adjusted SOH >= min inventory, and equals
\* max inventory - adjusted SOH whenever adjusted SOH < min inventory.
C1_ZeroExactlyWhenStocked ==
  \A j \in 1..Len(decisions) :
    LET d == decisions[j] IN
      /\ d.procurement_qty >= 0
      /\ (d.procurement_qty = 0) <=> (d.adjusted_soh >= d.min_inv)
      /\ d.adjusted_soh < d.min_inv => d.procurement_qty = d.max_inv - d.adjusted_soh

\* C1 (amended): the procurement quantity of every decision is never
\* negative; it is 0 whenever adjusted SOH >= min inventory; whenever
\* adjusted SOH < min inventory it is max(0, max inventory - adjusted SOH),
\* which is positive and equal to max inventory - adjusted SOH if max
\* inventory >= min inventory, and 0 if max inventory <= adjusted SOH.
C1_ProcurementRule ==
  \A j \in 1..Len(decisions) :
    LET d == decisions[j] IN
      /\ d.min_inv = d.forecast * d.min_days
      /\ d.max_inv = d.forecast * d.max_days
      /\ d.adjusted_soh = d.soh + d.open_po - d.open_so
      /\ d.procurement_qty >= 0
      /\ d.adjusted_soh >= d.min_inv => d.procurement_qty = 0
      /\ (d.adjusted_soh < d.min_inv /\ d.max_inv >= d.min_inv)
           => (d.procurement_qty > 0 /\ d.procurement_qty = d.max_inv - d.adjusted_soh)
      /\ (d.adjusted_soh < d.min_inv /\ d.max_inv > d.adjusted_soh)
           => d.procurement_qty = d.max_inv - d.adjusted_soh
      /\ (d.adjusted_soh < d.min_inv /\ d.max_inv <= d.adjusted_soh)
           => d.procurement_qty = 0

\* a run with a decision below min inventory that procures, and one below
\* min inventory whose max inventory is no more than the adjusted SOH
C1_Witness ==
  /\ \E j \in 1..Len(decisions) :
       decisions[j].adjusted_soh < decisions[j].min_inv /\ decisions[j].procurement_qty > 0
  /\ \E j \in 1..Len(decisions) :
       /\ decisions[j].adjusted_soh < decisions[j].min_inv
       /\ decisions[j].max_inv <= decisions[j].adjusted_soh

(* place_purchase_order *)
InSubmit == pc = "po_attempt"
Returned == pc # "po_attempt" /\ po_results # <<>>
LastResult == po_results[Len(po_results)]

SubmitterSafe ==
  LET a == Count(po_log, "attempt")
      f == Count(po_log, "failed")
      ok == Count(po_log, "success")
  IN /\ a <= retries
     /\ \A j \in 1..Len(po_log) :
          po_log[j].ev = "attempt" =>
            po_log[j].n = Count(SubSeq(po_log, 1, j), "attempt")
     /\ Len(po_results) = Len(orders) - (IF InSubmit THEN 1 ELSE 0)
     /\ InSubmit => (ok = 0 /\ a = f /\ f < retries /\ attempt = f + 1)
     /\ Returned =>
          /\ LastResult <=> ok = 1
          /\ LastResult =>
               /\ f < retries
               /\ a = f + 1
               /\ po_log[Len(po_log)].ev = "success"
          /\ ~LastResult => (a = retries /\ f = retries)

\* C2: the submitter never makes more than maxAttempts attempts; when it
\* returns True the capability failed k < maxAttempts times and then
\* succeeded, exactly k+1 attempts were made and none after the success;
\* when it returns False exactly maxAttempts attempts were made and every
\* one failed; and every call of the submitter returns.
C2_SubmitterOutcome == []SubmitterSafe /\ (InSubmit ~> Returned)

\* an order that was accepted on the third attempt, after two failures
C2_Witness ==
  /\ Returned
  /\ LastResult
  /\ Count(po_log, "failed") = 2
  /\ Count(po_log, "attempt") = 3

\* C10: a backoff wait happens only between two attempts: the wait after
\* failed attempt n is backoffBase * n and an attempt follows it; after the
\* last failed attempt there is no wait, so a call makes at most
\* maxAttempts - 1 waits.
C10_BackoffOnlyBetweenAttempts ==
  /\ Count(po_log, "sleep") <= retries - 1
  /\ \A j \in 1..Len(po_log) :
       po_log[j].ev = "sleep" =>
         /\ po_log[j].n = BackoffBase * Count(SubSeq(po_log, 1, j), "failed")
         /\ j < Len(po_log) => po_log[j + 1].ev = "attempt"
         /\ j = Len(po_log) => InSubmit

(* the batch *)
Terminated == pc \in {"no_data", "raised", "done"}

DecidedSkus == [j \in 1..Len(decisions) |-> decisions[j].sku]
SummarySkus == [j \in 1..Len(summary_rows) |-> summary_rows[j].SKU]
OrderedSkus == [j \in 1..Len(orders) |-> orders[j].sku]

\* C3: when forecast_sales raises for a SKU the run goes on: it is not
\* ended by the exception, and when it has ended every other SKU of the
\* batch has a decision.
C3_ForecastFailureContained ==
  exc = "forecast_sales" =>
    /\ pc # "raised"
    /\ Terminated =>
         \A j \in 1..Len(sku_list) : j # k => sku_list[j] \in Range(DecidedSkus)

\* C4: an order is submitted (and a token acquired) for a SKU only when
\* submission is enabled and the SKU's procurement quantity is > 0; no
\* order is submitted for a SKU whose quantity is 0; and no SKU has more
\* than one submission.
C4_OrderOnlyWhenPositive ==
  /\ tokens = Len(orders)
  /\ \A j \in 1..Len(orders) :
       /\ call_api
       /\ orders[j].quantity > 0
       /\ \E m \in 1..Len(decisions) :
            /\ decisions[m].sku = orders[j].sku
            /\ decisions[m].procurement_qty = orders[j].quantity
  /\ \A m \in 1..Len(decisions) :
       decisions[m].procurement_qty = 0 => decisions[m].sku \notin Range(OrderedSkus)
  /\ \A j, m \in 1..Len(orders) : orders[j].sku = orders[m].sku => j = m
  /\ InSubmit => (orders # <<>> /\ orders[Len(orders)].sku = sku_list[k])

\* a finished run that ordered for one SKU and decided 0 for another
C4_Witness ==
  /\ pc = "done"
  /\ orders # <<>>
  /\ \E m \in 1..Len(decisions) : decisions[m].procurement_qty = 0

\* C5: when the loader yields no valid row the run stops with the error:
\* nothing is preprocessed, forecast, decided or ordered.
C5_EmptyBatchStops ==
  /\ (pc # "load" /\ valid_rows = <<>>) =>
       /\ pc = "no_data"
       /\ processed_df = <<>>
       /\ decisions = <<>>
       /\ summary_rows = <<>>
       /\ orders = <<>>
       /\ tokens = 0
       /\ po_results = <<>>
  /\ pc = "no_data" => valid_rows = <<>>

\* a run over a file whose rows are all malformed, stopped with the error
C5_Witness == pc = "no_data" /\ Len(malformed_rows) >= 2

\* what C6 calls a malformed row
MissingOrEmpty(row, key) == key \notin DOMAIN row \/ row[key] \in {<<>>, None}

ClaimMalformed(row) ==
  \/ \E key \in Range(required_keys) : MissingOrEmpty(row, key)
  \/ \E key \in Range(numeric_keys) : key \in DOMAIN row /\ ~FloatOk(row[key])

\* C6: the rows read so far are split between valid_rows and
\* malformed_rows, each row in exactly one of them and both in input
\* order; a row with a required field absent or empty, or a numeric field
\* that does not parse, is in malformed_rows and not in valid_rows; and
\* the loader returns only after it has read every row.
C6_RowsPartitioned ==
  /\ Len(valid_rows) + Len(malformed_rows) = i
  /\ Range(valid_rows) \cap Range(malformed_rows) = {}
  /\ valid_rows = SelectSeq(Read, LAMBDA r : r \in Range(valid_rows))
  /\ malformed_rows = SelectSeq(Read, LAMBDA r : r \in Range(malformed_rows))
  /\ \A r \in Range(Read) :
       ClaimMalformed(r) => (r \in Range(malformed_rows) /\ r \notin Range(valid_rows))
  /\ pc # "load" => i = Len(rows)

\* a loaded file whose first row is malformed and whose second is valid
C6_Witness ==
  /\ pc # "load"
  /\ Len(rows) >= 2
  /\ ClaimMalformed(rows[1])
  /\ rows[1] \in Range(malformed_rows)
  /\ rows[2] \in Range(valid_rows)

\* C7: a run that passed the empty-batch check ends with a summary that
\* has exactly one entry per distinct SKU of the valid rows, in order of
\* first appearance (SKUs whose forecast or order failed included).
C7_SummaryComplete ==
  pc \in {"raised", "done"} => SummarySkus = unique(Column(valid_rows, "SKU"))

\* C8: every promotion and festival flag preprocess_data produces is 0 or 1.
C8_FlagsBinary ==
  \A j \in 1..Len(processed_df) :
    /\ processed_df[j].promotion \in {0, 1}
    /\ processed_df[j].festival \in {0, 1}

\* C9: the inventory values of every decision are those of a valid row of
\* the SKU that has the greatest Date among the SKU's valid rows.
C9_SnapshotIsMostRecent ==
  \A m \in 1..Len(decisions) :
    LET d == decisions[m]
        own == RowsOfSku(df, d.sku)
    IN \E j \in 1..Len(own) :
         /\ \A n \in 1..Len(own) :
              to_datetime(own[n]["Date"]) <= to_datetime(own[j]["Date"])
         /\ d.soh = own[j]["SOH"]
         /\ d.open_po = own[j]["Open_PO"]
         /\ d.open_so = own[j]["Open_SO"]
         /\ d.min_days = own[j]["Min_Days"]
         /\ d.max_days = own[j]["Max_Days"]

====
